---- MODULE Spec2Model ----
(***************************************************************************)
(* Model of the in-memory virtual filesystem of                            *)
(* src/src/dev/nakurity/vfs/virtualfs.ts (class VirtualFS).                 *)
(*                                                                         *)
(* JavaScript objects are modelled as a heap: a sequence of node records   *)
(* indexed by object identity.  A directory's `children` is a sequence of  *)
(* identities, so aliasing and cycles that the code can build (rename)     *)
(* are representable.  Objects are never freed; an object that is no       *)
(* longer referenced simply stays in the heap, unreachable from the root.  *)
(*                                                                         *)
(* Strings (paths, names, contents) are sequences of one-character         *)
(* strings, so that split("/"), join("/") and += are computed.             *)
(*                                                                         *)
(* `new Date()` is a logical clock: every call of a mutating operation     *)
(* that returns normally advances it by one; all the Dates taken inside    *)
(* one call are that call's time.                                          *)
(***************************************************************************)
EXTENDS Integers, Sequences, FiniteSets, TLC

VARIABLES heap, root, clock, last, pre,
          buffer, out, running, chunks, frame, consumed

vars == <<heap, root, clock, last, pre,
          buffer, out, running, chunks, frame, consumed>>

\* the state of the bridge: the text received and not yet consumed, the
\* frames written to stdout, whether the data handler is in its loop, the
\* data events so far, the frame consumed last and the number consumed
bridge == <<buffer, out, running, chunks, frame, consumed>>

(***************************************************************************)
(* Bounds and input sets                                                   *)
(***************************************************************************)
\* number of mutating calls that return normally in one run
MaxClock == 3

\* number of data events on stdin in one run
MaxChunks == 3

SLASH == "/"

\* the value `undefined` where a string is expected (a name popped from an
\* empty segment list, a property missing from a snapshot)
UndefName == <<"undefined">>
UndefType == "undefined"

RootName == <<SLASH>>

PathInputs ==
    { <<SLASH>>,
      <<SLASH, "a">>,
      <<SLASH, "b">>,
      <<SLASH, "a", SLASH, "b">> }

\* paths for the calls that only read: "/", "//", "/a", "a/", "/a/b",
\* "a/b" and "/a//b/"
QueryPaths ==
    { <<SLASH>>,
      <<SLASH, SLASH>>,
      <<SLASH, "a">>,
      <<"a", SLASH>>,
      <<SLASH, "a", SLASH, "b">>,
      <<"a", SLASH, "b">>,
      <<SLASH, "a", SLASH, SLASH, "b", SLASH>> }

ContentInputs == { <<"x">>, <<"y">> }

(***************************************************************************)
(* Strings                                                                 *)
(***************************************************************************)
Last(s) == s[Len(s)]

Front(s) == SubSeq(s, 1, Len(s) - 1)

\* path.split("/"): the pieces between the separators, empty ones included
RECURSIVE SplitRaw(_, _)
SplitRaw(s, cur) ==
    IF s = <<>> THEN <<cur>>
    ELSE IF Head(s) = SLASH THEN <<cur>> \o SplitRaw(Tail(s), <<>>)
    ELSE SplitRaw(Tail(s), Append(cur, Head(s)))

\* path.split("/").filter(Boolean): the non-empty pieces
Split(path) == SelectSeq(SplitRaw(path, <<>>), LAMBDA seg : seg # <<>>)

\* parts.join("/")
RECURSIVE Join(_)
Join(parts) ==
    IF parts = <<>> THEN <<>>
    ELSE IF Len(parts) = 1 THEN parts[1]
    ELSE parts[1] \o <<SLASH>> \o Join(Tail(parts))

\* parts.pop() leaves the other segments (an empty array stays empty)
Popped(parts) == IF parts = <<>> THEN <<>> ELSE Front(parts)

\* the value parts.pop() returns
PopValue(parts) == IF parts = <<>> THEN UndefName ELSE Last(parts)

(***************************************************************************)
(* Nodes                                                                   *)
(***************************************************************************)
NewDir(name, now) ==
    [type |-> "dir", name |-> name, content |-> <<>>, children |-> <<>>,
     createdAt |-> now, updatedAt |-> now]

NewFile(name, content, now) ==
    [type |-> "file", name |-> name, content |-> content, children |-> <<>>,
     createdAt |-> now, updatedAt |-> now]

\* `node.children` is an array: only nodes of type "dir" own one (a File
\* has no children property; load refuses a "dir" without one)
HasChildren(h, n) == h[n].type = "dir"

MinOf(S) == CHOOSE i \in S : \A j \in S : i <= j

\* children.find(pred): the first child satisfying it, 0 for undefined
FindDirChild(h, cur, part) ==
    LET kids == h[cur].children
        I == { i \in 1..Len(kids) :
                 h[kids[i]].type = "dir" /\ h[kids[i]].name = part }
    IN  IF I = {} THEN 0 ELSE kids[MinOf(I)]

FindFileIndex(h, cur, fileName) ==
    LET kids == h[cur].children
        I == { i \in 1..Len(kids) :
                 h[kids[i]].type = "file" /\ h[kids[i]].name = fileName }
    IN  IF I = {} THEN 0 ELSE MinOf(I)

FindNamedChild(h, cur, part) ==
    LET kids == h[cur].children
        I == { i \in 1..Len(kids) : h[kids[i]].name = part }
    IN  IF I = {} THEN 0 ELSE kids[MinOf(I)]

\* the walk of findNode over the segments
RECURSIVE Walk(_, _, _)
Walk(h, cur, parts) ==
    IF parts = <<>> THEN cur
    ELSE IF h[cur].type # "dir" THEN 0
    ELSE LET next == FindNamedChild(h, cur, Head(parts))
         IN  IF next = 0 THEN 0 ELSE Walk(h, next, Tail(parts))

\* findNode without the filter(Boolean) on the split path
findNodeUnfiltered(h, r, path) ==
    IF path = <<SLASH>> THEN r ELSE Walk(h, r, SplitRaw(path, <<>>))

\* findNode(path): the node's identity, 0 for undefined
findNode(h, r, path) ==
    IF path = <<SLASH>> THEN r ELSE Walk(h, r, Split(path))

\* getOrCreateDir(parts): walks from `cur`, creating the missing
\* directories.  Result: the heap as the walk left it, the directory
\* reached, and err = TRUE when `current.children` was undefined (TypeError)
RECURSIVE GetOrCreateFrom(_, _, _, _)
GetOrCreateFrom(h, cur, parts, now) ==
    IF parts = <<>> THEN [heap |-> h, dir |-> cur, err |-> FALSE]
    ELSE IF ~HasChildren(h, cur) THEN [heap |-> h, dir |-> cur, err |-> TRUE]
    ELSE LET next == FindDirChild(h, cur, Head(parts))
         IN  IF next # 0 THEN GetOrCreateFrom(h, next, Tail(parts), now)
             ELSE LET id == Len(h) + 1
                      h1 == Append(h, NewDir(Head(parts), now))
                      h2 == [h1 EXCEPT ![cur].children = Append(@, id)]
                  IN  GetOrCreateFrom(h2, id, Tail(parts), now)

getOrCreateDir(h, r, parts, now) == GetOrCreateFrom(h, r, parts, now)

(***************************************************************************)
(* Operations.  Each returns the heap and root the call leaves behind and   *)
(* err: "" when it returns normally, else the message of the Error thrown.  *)
(* A throw keeps whatever the call had already changed.                    *)
(***************************************************************************)
Outcome(h, r, err) == [heap |-> h, root |-> r, err |-> err]

\* createFile that never looks at the overwrite flag
createFileIgnoringFlag(h, r, path, content, overwrite, now) ==
    LET parts == Split(path) IN
    IF parts = <<>> THEN Outcome(h, r, "Invalid path")
    ELSE
    LET fileName == Last(parts)
        g == getOrCreateDir(h, r, Front(parts), now)
    IN
    IF g.err \/ ~HasChildren(g.heap, g.dir) THEN Outcome(g.heap, r, "TypeError")
    ELSE
    LET i == FindFileIndex(g.heap, g.dir, fileName) IN
    IF i # 0
    THEN LET existing == g.heap[g.dir].children[i]
         IN  Outcome([g.heap EXCEPT ![existing].content = content,
                                    ![existing].updatedAt = now],
                     r, IF overwrite THEN "" ELSE "File already exists")
    ELSE LET id == Len(g.heap) + 1
             h1 == Append(g.heap, NewFile(fileName, content, now))
         IN  Outcome([h1 EXCEPT ![g.dir].children = Append(@, id),
                                ![g.dir].updatedAt = now],
                     r, "")

\* createFile that overwrites by dropping the old File and appending a new one
createFileReplacing(h, r, path, content, overwrite, now) ==
    LET parts == Split(path) IN
    IF parts = <<>> THEN Outcome(h, r, "Invalid path")
    ELSE
    LET fileName == Last(parts)
        g == getOrCreateDir(h, r, Front(parts), now)
    IN
    IF g.err \/ ~HasChildren(g.heap, g.dir) THEN Outcome(g.heap, r, "TypeError")
    ELSE
    LET i == FindFileIndex(g.heap, g.dir, fileName)
        id == Len(g.heap) + 1
        h1 == Append(g.heap, NewFile(fileName, content, now))
    IN
    IF i # 0 /\ ~overwrite THEN Outcome(g.heap, r, "File already exists")
    ELSE IF i # 0
    THEN Outcome([h1 EXCEPT ![g.dir].children =
                               Append(SubSeq(@, 1, i - 1) \o SubSeq(@, i + 1, Len(@)), id),
                            ![g.dir].updatedAt = now],
                 r, "")
    ELSE Outcome([h1 EXCEPT ![g.dir].children = Append(@, id),
                            ![g.dir].updatedAt = now],
                 r, "")

createFile(h, r, path, content, overwrite, now) ==
    LET parts == Split(path) IN
    IF parts = <<>> THEN Outcome(h, r, "Invalid path")
    ELSE
    LET fileName == Last(parts)
        g == getOrCreateDir(h, r, Front(parts), now)
    IN
    IF g.err \/ ~HasChildren(g.heap, g.dir) THEN Outcome(g.heap, r, "TypeError")
    ELSE
    LET i == FindFileIndex(g.heap, g.dir, fileName) IN
    IF i # 0
    THEN IF ~overwrite THEN Outcome(g.heap, r, "File already exists")
         ELSE LET existing == g.heap[g.dir].children[i]
              IN  Outcome([g.heap EXCEPT ![existing].content = content,
                                         ![existing].updatedAt = now],
                          r, "")
    ELSE LET id == Len(g.heap) + 1
             h1 == Append(g.heap, NewFile(fileName, content, now))
         IN  Outcome([h1 EXCEPT ![g.dir].children = Append(@, id),
                                ![g.dir].updatedAt = now],
                     r, "")

\* mkdir that appends the leaf directory without looking for an existing one
mkdirNoLookup(h, r, path, now) ==
    LET parts == Split(path)
        g == getOrCreateDir(h, r, Popped(parts), now)
    IN  IF g.err THEN Outcome(g.heap, r, "TypeError")
        ELSE IF parts = <<>> THEN Outcome(g.heap, r, "")
        ELSE IF ~HasChildren(g.heap, g.dir) THEN Outcome(g.heap, r, "TypeError")
        ELSE LET id == Len(g.heap) + 1
                 h1 == Append(g.heap, NewDir(Last(parts), now))
             IN  Outcome([h1 EXCEPT ![g.dir].children = Append(@, id)], r, "")

mkdir(h, r, path, now) ==
    LET g == getOrCreateDir(h, r, Split(path), now)
    IN  Outcome(g.heap, r, IF g.err THEN "TypeError" ELSE "")

\* readFile(path): ok = FALSE when it throws "File not found"
readFile(h, r, path) ==
    LET node == findNode(h, r, path) IN
    IF node = 0 \/ h[node].type # "file"
    THEN [ok |-> FALSE, value |-> <<>>]
    ELSE [ok |-> TRUE, value |-> h[node].content]

\* array.splice(index, 1)
RemoveAt(s, i) == SubSeq(s, 1, i - 1) \o SubSeq(s, i + 1, Len(s))

\* unlink resolving the parent with getOrCreateDir instead of findNode
unlinkCreatingParent(h, r, path, now) ==
    LET parts == Split(path) IN
    IF parts = <<>> THEN Outcome(h, r, "Invalid path")
    ELSE
    LET fileName == Last(parts)
        g == getOrCreateDir(h, r, Front(parts), now)
    IN
    IF g.err THEN Outcome(g.heap, r, "Directory not found")
    ELSE
    LET index == FindFileIndex(g.heap, g.dir, fileName) IN
    IF index = 0 THEN Outcome(g.heap, r, "File not found")
    ELSE Outcome([g.heap EXCEPT ![g.dir].children = RemoveAt(@, index),
                                ![g.dir].updatedAt = now],
                 r, "")

\* unlink matching the leaf name against children of any kind
unlinkAnyKind(h, r, path, now) ==
    LET parts == Split(path) IN
    IF parts = <<>> THEN Outcome(h, r, "Invalid path")
    ELSE
    LET fileName == Last(parts)
        dir == findNode(h, r, <<SLASH>> \o Join(Front(parts)))
    IN
    IF dir = 0 \/ h[dir].type # "dir" THEN Outcome(h, r, "Directory not found")
    ELSE
    LET I == { i \in 1..Len(h[dir].children) : h[h[dir].children[i]].name = fileName } IN
    IF I = {} THEN Outcome(h, r, "File not found")
    ELSE Outcome([h EXCEPT ![dir].children = RemoveAt(@, MinOf(I)),
                           ![dir].updatedAt = now],
                 r, "")

unlink(h, r, path, now) ==
    LET parts == Split(path) IN
    IF parts = <<>> THEN Outcome(h, r, "Invalid path")
    ELSE
    LET fileName == Last(parts)
        dir == findNode(h, r, <<SLASH>> \o Join(Front(parts)))
    IN
    IF dir = 0 \/ h[dir].type # "dir" THEN Outcome(h, r, "Directory not found")
    ELSE
    LET index == FindFileIndex(h, dir, fileName) IN
    IF index = 0 THEN Outcome(h, r, "File not found")
    ELSE Outcome([h EXCEPT ![dir].children = RemoveAt(@, index),
                           ![dir].updatedAt = now],
                 r, "")

\* readdir(path): ok = FALSE when it throws "Directory not found"
readdir(h, r, path) ==
    LET node == findNode(h, r, path) IN
    IF node = 0 \/ h[node].type # "dir"
    THEN [ok |-> FALSE, value |-> <<>>]
    ELSE [ok |-> TRUE,
          value |-> [i \in 1..Len(h[node].children) |-> h[h[node].children[i]].name]]

\* oldParent.children.filter((c) => c !== node)
Without(kids, node) == SelectSeq(kids, LAMBDA c : c # node)

\* rename that only sets the name when source and destination directory
\* are the same object
renameInPlace(h, r, oldPath, newPath, now) ==
    LET node == findNode(h, r, oldPath) IN
    IF node = 0 THEN Outcome(h, r, "Node not found")
    ELSE
    LET oldParent == findNode(h, r, <<SLASH>> \o Join(Popped(Split(oldPath)))) IN
    IF oldParent = 0 \/ ~HasChildren(h, oldParent) THEN Outcome(h, r, "TypeError")
    ELSE
    LET newParts == Split(newPath)
        newName == PopValue(newParts)
        same == findNode(h, r, <<SLASH>> \o Join(Popped(newParts))) = oldParent
        h1 == [h EXCEPT ![oldParent].children = Without(@, node)]
        g == getOrCreateDir(h1, r, Popped(newParts), now)
    IN
    IF same /\ node # oldParent
    THEN Outcome([h EXCEPT ![node].name = newName, ![oldParent].updatedAt = now], r, "")
    ELSE IF g.err THEN Outcome(g.heap, r, "TypeError")
    ELSE
    LET h2 == [g.heap EXCEPT ![node].name = newName] IN
    IF ~HasChildren(h2, g.dir) THEN Outcome(h2, r, "TypeError")
    ELSE Outcome([h2 EXCEPT ![g.dir].children = Append(@, node),
                            ![g.dir].updatedAt = now],
                 r, "")

rename(h, r, oldPath, newPath, now) ==
    LET node == findNode(h, r, oldPath) IN
    IF node = 0 THEN Outcome(h, r, "Node not found")
    ELSE
    LET oldParent == findNode(h, r, <<SLASH>> \o Join(Popped(Split(oldPath)))) IN
    IF oldParent = 0 \/ ~HasChildren(h, oldParent) THEN Outcome(h, r, "TypeError")
    ELSE
    LET h1 == [h EXCEPT ![oldParent].children = Without(@, node)]
        newParts == Split(newPath)
        newName == PopValue(newParts)
        g == getOrCreateDir(h1, r, Popped(newParts), now)
    IN
    IF g.err THEN Outcome(g.heap, r, "TypeError")
    ELSE
    LET h2 == [g.heap EXCEPT ![node].name = newName] IN
    IF ~HasChildren(h2, g.dir) THEN Outcome(h2, r, "TypeError")
    ELSE Outcome([h2 EXCEPT ![g.dir].children = Append(@, node),
                            ![g.dir].updatedAt = now],
                 r, "")

exists(h, r, path) == findNode(h, r, path) # 0

\* stat(path): err names what it throws ("" if nothing); node.children of
\* an object that has no children array is undefined and its length a
\* TypeError; childrenCount is -1 where the Stats object has none
StatsOf(err, type, name, size, createdAt, updatedAt, childrenCount) ==
    [err |-> err, type |-> type, name |-> name, size |-> size,
     createdAt |-> createdAt, updatedAt |-> updatedAt,
     childrenCount |-> childrenCount]

stat(h, r, path) ==
    LET node == findNode(h, r, path) IN
    IF node = 0 THEN StatsOf("Path not found", UndefType, UndefName, 0, 0, 0, -1)
    ELSE IF h[node].type = "file"
    THEN StatsOf("", "file", h[node].name, Len(h[node].content),
                 h[node].createdAt, h[node].updatedAt, -1)
    ELSE IF ~HasChildren(h, node)
    THEN StatsOf("TypeError", UndefType, UndefName, 0, 0, 0, -1)
    ELSE StatsOf("", "dir", h[node].name, Len(h[node].children),
                 h[node].createdAt, h[node].updatedAt, Len(h[node].children))

writeFile(h, r, path, content, now) ==
    LET node == findNode(h, r, path) IN
    IF node = 0 THEN Outcome(h, r, "File not found")
    ELSE IF h[node].type # "file" THEN Outcome(h, r, "Path is not a file")
    ELSE Outcome([h EXCEPT ![node].content = content,
                           ![node].updatedAt = now],
                 r, "")

appendFile(h, r, path, content, now) ==
    LET node == findNode(h, r, path) IN
    IF node = 0 THEN Outcome(h, r, "File not found")
    ELSE IF h[node].type # "file" THEN Outcome(h, r, "Path is not a file")
    ELSE Outcome([h EXCEPT ![node].content = @ \o content,
                           ![node].updatedAt = now],
                 r, "")

(***************************************************************************)
(* Snapshot codec.  A JSON text is modelled by whether JSON.parse accepts  *)
(* it and by the value it parses to.  A JSON value is null or an object    *)
(* with the node properties; a property a text does not carry is           *)
(* `undefined` (UndefType, UndefName, hasChildren = FALSE).  A Date is      *)
(* written as an ISO-8601 instant, here its seconds and milliseconds.      *)
(* In every text considered only "dir" objects carry a children array.     *)
(***************************************************************************)
\* Date.prototype.toJSON / toISOString
ToISO(t) == [sec |-> t \div 1000, ms |-> t % 1000]

\* new Date(isoString)
FromISO(iso) == iso.sec * 1000 + iso.ms

JsonNull ==
    [json |-> "null", type |-> UndefType, name |-> UndefName, content |-> <<>>,
     hasChildren |-> FALSE, children |-> <<>>,
     createdAt |-> ToISO(0), updatedAt |-> ToISO(0)]

JsonObject(type, name, content, hasChildren, children, createdAt, updatedAt) ==
    [json |-> "object", type |-> type, name |-> name, content |-> content,
     hasChildren |-> hasChildren, children |-> children,
     createdAt |-> createdAt, updatedAt |-> updatedAt]

Text(value) == [parses |-> TRUE, value |-> value]

NotJson == [parses |-> FALSE, value |-> JsonNull]

\* JSON.stringify of the object graph below node n; err = TRUE for the
\* TypeError JSON.stringify throws on a circular structure (`stack` holds
\* the objects being serialised)
RECURSIVE Stringify(_, _, _)
RECURSIVE StringifyAll(_, _, _)
Stringify(h, n, stack) ==
    IF n \in stack THEN [err |-> TRUE, value |-> JsonNull]
    ELSE LET kids == IF HasChildren(h, n)
                     THEN StringifyAll(h, h[n].children, stack \cup {n})
                     ELSE [err |-> FALSE, values |-> <<>>]
         IN  IF kids.err THEN [err |-> TRUE, value |-> JsonNull]
             ELSE [err |-> FALSE,
                   value |-> JsonObject(h[n].type, h[n].name, h[n].content,
                                        HasChildren(h, n), kids.values,
                                        ToISO(h[n].createdAt),
                                        ToISO(h[n].updatedAt))]

StringifyAll(h, kids, stack) ==
    IF kids = <<>> THEN [err |-> FALSE, values |-> <<>>]
    ELSE LET first == Stringify(h, Head(kids), stack) IN
         IF first.err THEN [err |-> TRUE, values |-> <<>>]
         ELSE LET rest == StringifyAll(h, Tail(kids), stack) IN
              IF rest.err THEN [err |-> TRUE, values |-> <<>>]
              ELSE [err |-> FALSE, values |-> <<first.value>> \o rest.values]

\* save(): ok = FALSE when JSON.stringify throws
save(h, r) ==
    LET s == Stringify(h, r, {})
    IN  [ok |-> ~s.err, text |-> Text(s.value)]

\* reviveDates(node) on a parsed value: the object becomes heap object
\* `id`; err = TRUE when it throws a TypeError (a property set on null,
\* children.map on undefined).  The objects JSON.parse built belong to the
\* namespace only once load has assigned this.root.
RECURSIVE reviveDates(_, _)
RECURSIVE ReviveAll(_, _)
reviveDates(h, d) ==
    IF d.json # "object" THEN [heap |-> h, id |-> 0, err |-> TRUE]
    ELSE
    LET id == Len(h) + 1
        h1 == Append(h, [type |-> d.type, name |-> d.name, content |-> d.content,
                         children |-> <<>>,
                         createdAt |-> FromISO(d.createdAt),
                         updatedAt |-> FromISO(d.updatedAt)])
    IN
    IF d.type # "dir" THEN [heap |-> h1, id |-> id, err |-> FALSE]
    ELSE IF ~d.hasChildren THEN [heap |-> h1, id |-> id, err |-> TRUE]
    ELSE LET kids == ReviveAll(h1, d.children)
         IN  [heap |-> [kids.heap EXCEPT ![id].children = kids.ids],
              id |-> id, err |-> kids.err]

ReviveAll(h, ds) ==
    IF ds = <<>> THEN [heap |-> h, ids |-> <<>>, err |-> FALSE]
    ELSE LET first == reviveDates(h, Head(ds)) IN
         IF first.err THEN [heap |-> first.heap, ids |-> <<>>, err |-> TRUE]
         ELSE LET rest == ReviveAll(first.heap, Tail(ds))
              IN  [heap |-> rest.heap, ids |-> <<first.id>> \o rest.ids,
                   err |-> rest.err]

load(h, r, text) ==
    IF ~text.parses THEN Outcome(h, r, "SyntaxError")
    ELSE LET v == reviveDates(h, text.value)
         IN  IF v.err THEN Outcome(h, r, "TypeError")
             ELSE Outcome(v.heap, v.id, "")

\* snapshot texts offered to load besides the current save()
FileDoc(name, content) ==
    JsonObject("file", name, content, FALSE, <<>>, ToISO(0), ToISO(0))

DirDoc(name, children) ==
    JsonObject("dir", name, <<>>, TRUE, children, ToISO(0), ToISO(0))

LoadInputs ==
    { NotJson,                                                 \* not JSON
      Text(JsonNull),                                          \* null
      Text(FileDoc(<<"a">>, <<"x">>)),                         \* a file at the root
      Text(JsonObject("dir", RootName, <<>>, FALSE, <<>>,
                      ToISO(0), ToISO(0))),                    \* dir, no children
      Text(JsonObject(UndefType, RootName, <<>>, FALSE, <<>>,
                      ToISO(0), ToISO(0))),                    \* no type
      Text(JsonObject("dir", UndefName, <<>>, TRUE, <<>>,
                      ToISO(0), ToISO(0))),                    \* no name
      Text(DirDoc(RootName,
                  << FileDoc(<<"a">>, <<"x">>),
                     JsonObject("dir", <<"b">>, <<>>, FALSE, <<>>,
                                ToISO(0), ToISO(0)) >>)),      \* bad below the root
      Text(DirDoc(RootName, << FileDoc(<<"a">>, <<"x">>) >>)) }

\* The calls that only read, as calls: the object graph they leave and
\* the Error they throw.
\* exists that creates the directories it does not find
existsCallCreating(h, r, path) ==
    Outcome(getOrCreateDir(h, r, Split(path), 0).heap, r, "")

\* exists never throws
existsCall(h, r, path) == Outcome(h, r, "")

readFileCall(h, r, path) ==
    Outcome(h, r, IF readFile(h, r, path).ok THEN "" ELSE "File not found")

readdirCall(h, r, path) ==
    Outcome(h, r, IF readdir(h, r, path).ok THEN "" ELSE "Directory not found")

statCall(h, r, path) == Outcome(h, r, stat(h, r, path).err)

saveCall(h, r) == Outcome(h, r, IF save(h, r).ok THEN "" ELSE "TypeError")

(***************************************************************************)
(* State machine                                                           *)
(***************************************************************************)
\* the last call: operation, arguments, and the Error it threw ("" if none)
Call(op, path, path2, content, overwrite, text) ==
    [op |-> op, path |-> path, path2 |-> path2, content |-> content,
     overwrite |-> overwrite, text |-> text, err |-> ""]

NoCall == Call("new", <<>>, <<>>, <<>>, FALSE, NotJson)

\* no frame consumed yet
NoFrame == [kind |-> "none", id |-> "", outBefore |-> 0]

\* constructor; bridge.js before the first data event
Init ==
    /\ heap = << NewDir(RootName, 0) >>
    /\ root = 1
    /\ clock = 0
    /\ last = NoCall
    /\ pre = [heap |-> << NewDir(RootName, 0) >>, root |-> 1]
    /\ buffer = <<>>
    /\ out = <<>>
    /\ running = FALSE
    /\ chunks = 0
    /\ frame = NoFrame
    /\ consumed = 0

\* the state after a call with outcome o
Finish(o, call) ==
    /\ heap' = o.heap
    /\ root' = o.root
    /\ clock' = IF o.err = "" THEN clock + 1 ELSE clock
    /\ last' = [call EXCEPT !.err = o.err]
    /\ pre' = [heap |-> heap, root |-> root]
    /\ UNCHANGED bridge

CreateFile ==
    \E path \in PathInputs, content \in ContentInputs, overwrite \in BOOLEAN :
        /\ clock < MaxClock
        /\ Finish(createFile(heap, root, path, content, overwrite, clock + 1),
                  Call("createFile", path, <<>>, content, overwrite, NotJson))

Mkdir ==
    \E path \in PathInputs :
        /\ clock < MaxClock
        /\ Finish(mkdir(heap, root, path, clock + 1),
                  Call("mkdir", path, <<>>, <<>>, FALSE, NotJson))

Unlink ==
    \E path \in PathInputs :
        /\ clock < MaxClock
        /\ Finish(unlink(heap, root, path, clock + 1),
                  Call("unlink", path, <<>>, <<>>, FALSE, NotJson))

Rename ==
    \E oldPath \in PathInputs, newPath \in PathInputs :
        /\ clock < MaxClock
        /\ Finish(rename(heap, root, oldPath, newPath, clock + 1),
                  Call("rename", oldPath, newPath, <<>>, FALSE, NotJson))

WriteFile ==
    \E path \in PathInputs, content \in ContentInputs :
        /\ clock < MaxClock
        /\ Finish(writeFile(heap, root, path, content, clock + 1),
                  Call("writeFile", path, <<>>, content, FALSE, NotJson))

AppendFile ==
    \E path \in PathInputs, content \in ContentInputs :
        /\ clock < MaxClock
        /\ Finish(appendFile(heap, root, path, content, clock + 1),
                  Call("appendFile", path, <<>>, content, FALSE, NotJson))

\* load(json) of a text that is not the current snapshot
Load ==
    \E text \in LoadInputs :
        /\ clock < MaxClock
        /\ Finish(load(heap, root, text),
                  Call("load", <<>>, <<>>, <<>>, FALSE, text))

\* load(save())
LoadSaved ==
    /\ clock < MaxClock
    /\ save(heap, root).ok
    /\ Finish(load(heap, root, save(heap, root).text),
              Call("loadSaved", <<>>, <<>>, <<>>, FALSE, save(heap, root).text))

\* the state after a call that reads no clock
Answer(o, call) ==
    /\ heap' = o.heap
    /\ root' = o.root
    /\ clock' = clock
    /\ last' = [call EXCEPT !.err = o.err]
    /\ pre' = [heap |-> heap, root |-> root]
    /\ UNCHANGED bridge

ReadFile ==
    \E path \in QueryPaths :
        Answer(readFileCall(heap, root, path),
               Call("readFile", path, <<>>, <<>>, FALSE, NotJson))

Readdir ==
    \E path \in QueryPaths :
        Answer(readdirCall(heap, root, path),
               Call("readdir", path, <<>>, <<>>, FALSE, NotJson))

Stat ==
    \E path \in QueryPaths :
        Answer(statCall(heap, root, path),
               Call("stat", path, <<>>, <<>>, FALSE, NotJson))

Exists ==
    \E path \in QueryPaths :
        Answer(existsCall(heap, root, path),
               Call("exists", path, <<>>, <<>>, FALSE, NotJson))

Save ==
    Answer(saveCall(heap, root),
           Call("save", <<>>, <<>>, <<>>, FALSE, NotJson))

NextNamespace ==
    \/ CreateFile
    \/ Mkdir
    \/ Unlink
    \/ Rename
    \/ WriteFile
    \/ AppendFile

Next ==
    \/ NextNamespace
    \/ Load
    \/ LoadSaved

Spec == Init /\ [][Next]_vars

\* the namespace operations alone, without load
SpecNamespace == Init /\ [][NextNamespace]_vars

\* the namespace operations and the snapshot round trip
SpecRoundTrip == Init /\ [][NextNamespace \/ LoadSaved]_vars

NextQuery ==
    \/ ReadFile
    \/ Readdir
    \/ Stat
    \/ Exists
    \/ Save

\* every operation of the class, the reading ones included
SpecQuery == Init /\ [][Next \/ NextQuery]_vars

(***************************************************************************)
(* The bridge (dist/bridge.js).  The text on stdin is a sequence of        *)
(* tokens: the newline character, a run of characters that is the JSON     *)
(* text of one request {id, method, params: [path]}, and a run of          *)
(* characters that is no JSON text.  The data handler is async, but the    *)
(* operations it awaits return no promise, so it is back at its `while`    *)
(* before the next data event is delivered.                                *)
(***************************************************************************)
NL == [tok |-> "\n", id |-> "", method |-> "", path |-> <<>>]

Junk == [tok |-> "junk", id |-> "", method |-> "", path |-> <<>>]

Request(id, method, path) ==
    [tok |-> "json", id |-> id, method |-> method, path |-> path]

\* the `methods` table of ./virtualfs.js: the operations of one VirtualFS
\* by name
MethodNames == {"mkdir", "readFile"}

methods(method, h, r, path, now) ==
    IF method = "mkdir" THEN mkdir(h, r, path, now) ELSE readFileCall(h, r, path)

\* what the method returns
MethodResult(method, h, r, path) ==
    IF method = "readFile" THEN readFile(h, r, path).value ELSE <<>>

\* a text followed by the delimiter
Framed(body) == body \o <<NL, NL>>

\* the chunks stdin delivers
ChunkInputs ==
    { Framed(<<Request("1", "mkdir", <<SLASH, "a">>)>>),
      Framed(<<Request("2", "readFile", <<SLASH, "a">>)>>),
      Framed(<<Request("3", "chmod", <<SLASH, "a">>)>>),
      Framed(<<Junk>>),
      Framed(<<Request("3", "chmod", <<SLASH, "a">>)>>)
          \o Framed(<<Request("1", "mkdir", <<SLASH, "a">>)>>),
      Framed(<<Junk>>) \o Framed(<<Request("2", "readFile", <<SLASH, "a">>)>>),
      <<Request("1", "mkdir", <<SLASH, "a">>), NL>>,
      <<NL>> }

\* buffer.indexOf("\n\n"), counted from 1; 0 for -1
indexOf(buf) ==
    LET I == { i \in 1..(Len(buf) - 1) : buf[i] = NL /\ buf[i + 1] = NL }
    IN  IF I = {} THEN 0 ELSE MinOf(I)

\* JSON.parse(raw): newlines around the one JSON text are white space
Parse(raw) ==
    LET body == SelectSeq(raw, LAMBDA t : t # NL) IN
    IF Len(body) = 1 /\ body[1].tok = "json"
    THEN [ok |-> TRUE, msg |-> body[1]]
    ELSE [ok |-> FALSE, msg |-> Junk]

\* id: null
NullId == "null"

\* the frames written to stdout
ResultFrame(id, result) ==
    [id |-> id, kind |-> "result", result |-> result, message |-> ""]

ErrorFrame(id, message) ==
    [id |-> id, kind |-> "error", result |-> <<>>, message |-> message]

\* process.stdin.on("data"): buffer += chunk, and the loop starts
Data ==
    \E chunk \in ChunkInputs :
        /\ ~running
        /\ chunks < MaxChunks
        /\ buffer' = buffer \o chunk
        /\ running' = TRUE
        /\ chunks' = chunks + 1
        /\ UNCHANGED <<heap, root, clock, last, pre, out, frame, consumed>>

\* if (idx === -1) break
Break ==
    /\ running
    /\ indexOf(buffer) = 0
    /\ running' = FALSE
    /\ UNCHANGED <<heap, root, clock, last, pre, buffer, out, chunks, frame,
                   consumed>>

\* raw = buffer.slice(0, idx); buffer = buffer.slice(idx + 2)
Raw == SubSeq(buffer, 1, indexOf(buffer) - 1)

Slice(kind, id) ==
    /\ running
    /\ indexOf(buffer) # 0
    /\ buffer' = SubSeq(buffer, indexOf(buffer) + 2, Len(buffer))
    /\ consumed' = consumed + 1
    /\ frame' = [kind |-> kind, id |-> id, outBefore |-> Len(out)]
    /\ UNCHANGED chunks

\* JSON.parse throws: the error frame with id null, and `continue`
InvalidJSON ==
    /\ Slice("invalid", NullId)
    /\ ~Parse(Raw).ok
    /\ out' = Append(out, ErrorFrame(NullId, "Invalid JSON"))
    /\ running' = TRUE
    /\ pre' = [heap |-> heap, root |-> root]
    /\ UNCHANGED <<heap, root, clock, last>>

\* !methods[method]: the argument of write reads DELIM, which is declared
\* nowhere; the ReferenceError rejects the handler's promise before
\* anything is written and ends the loop.  Node raises the unhandled
\* rejection as an uncaught exception, and the uncaughtException handler
\* writes its frame
UnknownMethodUncaught ==
    /\ Slice("unknown", Parse(Raw).msg.id)
    /\ Parse(Raw).ok
    /\ Parse(Raw).msg.method \notin MethodNames
    /\ out' = Append(out, ErrorFrame(NullId, "DELIM is not defined"))
    /\ running' = FALSE
    /\ pre' = [heap |-> heap, root |-> root]
    /\ UNCHANGED <<heap, root, clock, last>>

\* the same, in a Node that only warns about an unhandled rejection
UnknownMethodWarned ==
    /\ Slice("unknown", Parse(Raw).msg.id)
    /\ Parse(Raw).ok
    /\ Parse(Raw).msg.method \notin MethodNames
    /\ out' = out
    /\ running' = FALSE
    /\ pre' = [heap |-> heap, root |-> root]
    /\ UNCHANGED <<heap, root, clock, last>>

\* await methods[method](...params): {id, result}, or {id, error} when it
\* throws
Dispatch ==
    /\ Slice("call", Parse(Raw).msg.id)
    /\ Parse(Raw).ok
    /\ Parse(Raw).msg.method \in MethodNames
    /\ LET msg == Parse(Raw).msg
           o == methods(msg.method, heap, root, msg.path, clock + 1)
       IN  /\ heap' = o.heap
           /\ root' = o.root
           /\ clock' = IF o.err = "" /\ msg.method = "mkdir"
                       THEN clock + 1 ELSE clock
           /\ last' = [Call(msg.method, msg.path, <<>>, <<>>, FALSE, NotJson)
                          EXCEPT !.err = o.err]
           /\ pre' = [heap |-> heap, root |-> root]
           /\ out' = Append(out,
                        IF o.err = ""
                        THEN ResultFrame(msg.id,
                                 MethodResult(msg.method, heap, root, msg.path))
                        ELSE ErrorFrame(msg.id, o.err))
    /\ running' = TRUE

NextBridge ==
    \/ Data
    \/ Break
    \/ InvalidJSON
    \/ UnknownMethodUncaught
    \/ UnknownMethodWarned
    \/ Dispatch

\* the bridge over one VirtualFS
SpecBridge == Init /\ [][NextBridge]_vars

(***************************************************************************)
(* Vocabulary of the properties                                            *)
(***************************************************************************)
Ok == last.err = ""

Threw == last.err # ""

\* the call left every object and the root as they were
Untouched == heap = pre.heap /\ root = pre.root

KidSet(h, n) == { h[n].children[i] : i \in 1..Len(h[n].children) }

RECURSIVE ReachFrom(_, _, _)
ReachFrom(h, frontier, seen) ==
    IF frontier = {} THEN seen
    ELSE LET n == CHOOSE x \in frontier : TRUE
             new == KidSet(h, n) \ (seen \cup frontier)
         IN  ReachFrom(h, (frontier \ {n}) \cup new, seen \cup {n})

\* the objects reachable from the root by children links
Reach(h, r) == ReachFrom(h, {r}, {})

\* the objects strictly below n
Below(h, n) == ReachFrom(h, KidSet(h, n), {})

\* the places (parent, index) at which n is listed as a child
Slots(h, r, n) ==
    { <<p, i>> \in Reach(h, r) \X (1..Len(h)) :
        i <= Len(h[p].children) /\ h[p].children[i] = n }

IsProperPrefix(s, t) == Len(s) < Len(t) /\ SubSeq(t, 1, Len(s)) = s

ParentPath(path) == <<SLASH>> \o Join(Popped(Split(path)))

InSeq(x, s) == \E i \in 1..Len(s) : s[i] = x

\* two acyclic object graphs agree in kind, name, content, child order and
\* both timestamps
RECURSIVE DeepEqual(_, _, _, _)
DeepEqual(h1, n1, h2, n2) ==
    /\ h1[n1].type = h2[n2].type
    /\ h1[n1].name = h2[n2].name
    /\ h1[n1].content = h2[n2].content
    /\ h1[n1].createdAt = h2[n2].createdAt
    /\ h1[n1].updatedAt = h2[n2].updatedAt
    /\ Len(h1[n1].children) = Len(h2[n2].children)
    /\ \A i \in 1..Len(h1[n1].children) :
          DeepEqual(h1, h1[n1].children[i], h2, h2[n2].children[i])

\* a snapshot value with the structure §6 of the specification describes
RECURSIVE WellFormedNode(_)
WellFormedNode(d) ==
    /\ d.json = "object"
    /\ d.type \in {"file", "dir"}
    /\ d.name # UndefName
    /\ d.type = "dir" =>
          /\ d.hasChildren
          /\ \A i \in 1..Len(d.children) : WellFormedNode(d.children[i])

WellFormedSnapshot(text) ==
    /\ text.parses
    /\ WellFormedNode(text.value)
    /\ text.value.type = "dir"

(***************************************************************************)
(* Claims                                                                  *)
(***************************************************************************)

\* C1: after any sequence of createFile, mkdir, rename, unlink, writeFile
\* and appendFile calls, no directory has two children with the same name,
\* whatever their kinds.
C1_SiblingNamesUnique ==
    \A n \in Reach(heap, root) :
        \A i, j \in 1..Len(heap[n].children) :
            i # j => heap[heap[n].children[i]].name # heap[heap[n].children[j]].name

\* C2: the namespace is always a tree: every non-root node is listed by
\* exactly one parent, exactly once; the root is listed by none; no
\* directory is its own ancestor.
C2_IsTree ==
    /\ Slots(heap, root, root) = {}
    /\ \A n \in Reach(heap, root) \ {root} : Cardinality(Slots(heap, root, n)) = 1
    /\ \A n \in Reach(heap, root) : n \notin Below(heap, n)

C4_ExistsFollowsCreateAndUnlink ==
    /\ (Ok /\ last.op \in {"createFile", "mkdir"} /\ Split(last.path) # <<>>)
          => exists(heap, root, last.path)
    /\ (Ok /\ last.op = "unlink") => ~exists(heap, root, last.path)

\* C5: after a successful createFile(path, X), readFile(path) returns X;
\* after a successful appendFile(path, Y), readFile(path) returns what it
\* returned before, followed by Y.
C5_ReadBack ==
    /\ (Ok /\ last.op = "createFile")
          => readFile(heap, root, last.path) = [ok |-> TRUE, value |-> last.content]
    /\ (Ok /\ last.op = "appendFile")
          => readFile(heap, root, last.path) =
                [ok |-> TRUE,
                 value |-> readFile(pre.heap, pre.root, last.path).value
                              \o last.content]

\* C6: after a successful rename(oldPath, newPath) with oldPath # newPath,
\* exists(oldPath) is false, readdir of newPath's parent lists the new leaf
\* and readdir of oldPath's parent no longer lists the old leaf.
C6_RenameMoves ==
    (Ok /\ last.op = "rename" /\ last.path # last.path2) =>
        LET newDir == readdir(heap, root, ParentPath(last.path2))
            oldDir == readdir(heap, root, ParentPath(last.path))
        IN  /\ ~exists(heap, root, last.path)
            /\ newDir.ok /\ InSeq(PopValue(Split(last.path2)), newDir.value)
            /\ oldDir.ok /\ ~InSeq(PopValue(Split(last.path)), oldDir.value)

\* C7: rename(oldPath, newPath) of a directory to a path below itself
\* throws and leaves the tree unchanged.
C7_SelfMoveRejected ==
    LET node == findNode(pre.heap, pre.root, last.path) IN
    (/\ last.op = "rename"
     /\ node # 0
     /\ pre.heap[node].type = "dir"
     /\ IsProperPrefix(Split(last.path), Split(last.path2)))
        => Threw /\ Untouched

\* C8: for every tree T the namespace operations reach, save(T) gives a
\* snapshot and load of it gives a tree equal to T in kind, name, content,
\* child order and both timestamps of every node.
C8_RoundTrip ==
    /\ save(heap, root).ok
    /\ last.op = "loadSaved" =>
          Ok /\ DeepEqual(heap, root, pre.heap, pre.root)

\* C9: load of a text that is not parseable or is structurally invalid (no
\* directory at the root, a directory without children, a node without
\* kind or name) throws and leaves the tree untouched.
C9_LoadAllOrNothing ==
    (last.op = "load" /\ ~WellFormedSnapshot(last.text)) => Threw /\ Untouched

\* C10: there is always exactly one root; it is a directory, its name is
\* "/", and no directory lists it as a child.
C10_RootInvariant ==
    /\ root \in 1..Len(heap)
    /\ heap[root].type = "dir"
    /\ heap[root].name = RootName
    /\ \A n \in 1..Len(heap) : root \notin KidSet(heap, n)

\* the File found at `path`: the first File named by the leaf among the
\* children of the directory the parent path resolves to (0 when there is
\* no leaf, no such directory or no such File)
FileAt(h, r, path) ==
    IF Split(path) = <<>> THEN 0
    ELSE LET d == findNode(h, r, ParentPath(path))
             leaf == PopValue(Split(path))
         IN  IF d = 0 THEN 0
             ELSE IF h[d].type # "dir" THEN 0
             ELSE LET F == { i \in 1..Len(h[d].children) :
                               /\ h[h[d].children[i]].type = "file"
                               /\ h[h[d].children[i]].name = leaf }
                  IN  IF F = {} THEN 0 ELSE h[d].children[MinOf(F)]

\* C11: createFile(path, c, overwrite = false) on a path where a File
\* already exists throws "File already exists" and leaves that File's
\* content and the rest of the tree unchanged.
C11_NoOverwriteRejected ==
    (/\ last.op = "createFile"
     /\ ~last.overwrite
     /\ FileAt(pre.heap, pre.root, last.path) # 0)
        => /\ last.err = "File already exists"
           /\ heap[FileAt(pre.heap, pre.root, last.path)].content
                 = pre.heap[FileAt(pre.heap, pre.root, last.path)].content
           /\ Untouched

\* C11 witness: a rejected createFile of other content than the File holds
C11_Witness ==
    /\ last.op = "createFile"
    /\ ~last.overwrite
    /\ last.err = "File already exists"
    /\ FileAt(pre.heap, pre.root, last.path) # 0
    /\ pre.heap[FileAt(pre.heap, pre.root, last.path)].content # last.content

\* C12: createFile(path, c, overwrite = true) on a path where a File
\* already exists returns normally; the File's content is c and its
\* updatedAt the time of the call; its createdAt, every directory's
\* children (so the File's position and the parent's child count) and
\* every other node are unchanged.
C12_OverwriteInPlace ==
    LET f == FileAt(pre.heap, pre.root, last.path) IN
    (last.op = "createFile" /\ last.overwrite /\ f # 0)
        => /\ Ok
           /\ root = pre.root
           /\ Len(heap) = Len(pre.heap)
           /\ heap[f].content = last.content
           /\ heap[f].updatedAt = clock
           /\ heap[f].createdAt = pre.heap[f].createdAt
           /\ heap[f].name = pre.heap[f].name
           /\ heap[f].type = "file"
           /\ \A n \in 1..Len(pre.heap) :
                 /\ heap[n].children = pre.heap[n].children
                 /\ n # f => heap[n] = pre.heap[n]

\* C12 witness: an overwrite that changed the content of a File created
\* by an earlier call
C12_Witness ==
    LET f == FileAt(pre.heap, pre.root, last.path) IN
    /\ last.op = "createFile"
    /\ last.overwrite
    /\ Ok
    /\ f # 0
    /\ pre.heap[f].content # last.content
    /\ heap[f].updatedAt > heap[f].createdAt

\* C13: mkdir(p) called again right after a mkdir(p) that returned normally
\* returns normally and leaves the tree unchanged.
C13_MkdirIdempotent ==
    [][ (/\ last.op = "mkdir"
         /\ last.err = ""
         /\ last'.op = "mkdir"
         /\ last'.path = last.path)
           => (last'.err = "" /\ heap' = heap /\ root' = root) ]_vars

\* C13 witness: mkdir("/a/b") has returned without touching the tree, and
\* the directory "/a/b" was made by the successful call before it
C13_Witness ==
    LET d == findNode(heap, root, last.path) IN
    /\ last.op = "mkdir"
    /\ Ok
    /\ Untouched
    /\ Len(Split(last.path)) = 2
    /\ d # 0
    /\ heap[d].type = "dir"
    /\ heap[d].createdAt = clock - 1

\* C14: with the clock ticking per operation, every directory whose
\* children sequence a call changed (insert by createFile or by on-demand
\* directory creation, removal by unlink, move out or in by rename) has
\* updatedAt = the time of that call, and so has every File whose content
\* the call changed.
C14_TimestampRefresh ==
    Ok => \A n \in 1..Len(pre.heap) :
             /\ heap[n].children # pre.heap[n].children => heap[n].updatedAt = clock
             /\ heap[n].content # pre.heap[n].content => heap[n].updatedAt = clock

\* the directory a successful unlink(path) took its entry from
UnlinkDir(h, r, path) == findNode(h, r, ParentPath(path))

\* C17: a successful unlink(path) removes exactly one entry of the parent
\* directory, a File named by the leaf, keeps the parent's other children
\* in their order and every other node as it was; when the parent path
\* resolves to no directory, or the directory holds no File of that name
\* (a Directory of that name included), unlink throws and changes nothing.
C17_UnlinkFrame ==
    LET d == UnlinkDir(pre.heap, pre.root, last.path)
        leaf == PopValue(Split(last.path))
    IN
    last.op = "unlink" =>
        /\ Ok =>
             /\ d # 0
             /\ root = pre.root
             /\ Len(heap) = Len(pre.heap)
             /\ \E i \in 1..Len(pre.heap[d].children) :
                   /\ pre.heap[pre.heap[d].children[i]].type = "file"
                   /\ pre.heap[pre.heap[d].children[i]].name = leaf
                   /\ heap[d].children =
                         [k \in 1..(Len(pre.heap[d].children) - 1) |->
                             IF k < i THEN pre.heap[d].children[k]
                             ELSE pre.heap[d].children[k + 1]]
             /\ \A n \in 1..Len(pre.heap) :
                   /\ n # d => heap[n] = pre.heap[n]
                   /\ heap[n].type = pre.heap[n].type
                   /\ heap[n].name = pre.heap[n].name
                   /\ heap[n].content = pre.heap[n].content
                   /\ heap[n].createdAt = pre.heap[n].createdAt
        /\ (d = 0 \/ FileAt(pre.heap, pre.root, last.path) = 0) => Threw /\ Untouched

\* C17 witness: unlink took a File out of a directory that keeps another
\* child
C17_Witness ==
    /\ last.op = "unlink"
    /\ Ok
    /\ heap[UnlinkDir(pre.heap, pre.root, last.path)].children # <<>>

\* C17 witness of the refusals: unlink of a name only a Directory bears
C17_WitnessDirectory ==
    /\ last.op = "unlink"
    /\ Threw
    /\ exists(heap, root, last.path)
    /\ heap[findNode(heap, root, last.path)].type = "dir"
    /\ last.path # <<SLASH>>

\* the names of a directory's children in the order of its children array
Listing(h, n) == [i \in 1..Len(h[n].children) |-> h[h[n].children[i]].name]

\* the objects a call created
Fresh == (Len(pre.heap) + 1)..Len(heap)

\* the children a directory had before the call (none when the call made it)
KidsBefore(n) == IF n <= Len(pre.heap) THEN pre.heap[n].children ELSE <<>>

\* the node a rename(oldPath, ...) moves
Moved == findNode(pre.heap, pre.root, last.path)

C19_EmptySegmentsIgnored ==
    /\ \A p \in QueryPaths, q \in QueryPaths :
          Split(p) = Split(q) =>
              /\ exists(heap, root, p) = exists(heap, root, q)
              /\ readFile(heap, root, p) = readFile(heap, root, q)
              /\ readdir(heap, root, p) = readdir(heap, root, q)
              /\ stat(heap, root, p) = stat(heap, root, q)
    /\ findNode(heap, root, <<SLASH>>) = root
    /\ exists(heap, root, <<SLASH>>)

\* C19 witness: stat("/a//b/") has answered with the Stats of the file
\* that "/a/b" names
C19_Witness ==
    /\ last.op = "stat"
    /\ last.path = <<"/", "a", "/", "/", "b", "/">>
    /\ Ok
    /\ stat(heap, root, <<"/", "a", "/", "b">>).type = "file"

QueryOps == {"readFile", "readdir", "stat", "exists", "save"}

\* C20: readFile, readdir, stat, exists and save leave every object as it
\* was, whether they return or throw.
C20_QueriesPure == last.op \in QueryOps => Untouched

\* C20 witness: a save that threw on a cycle
C20_Witness ==
    /\ last.op = "save"
    /\ Threw
    /\ Len(heap) > 1

\* C20 witness: a readdir that listed a directory with two entries
C20_WitnessReaddir ==
    /\ last.op = "readdir"
    /\ Ok
    /\ Len(readdir(heap, root, last.path).value) = 2

\* C15: after a request frame with an unknown method exactly one frame
\* was written, an error frame with the request's id, and the namespace is
\* as it was.
C15_UnknownMethodAnswered ==
    frame.kind = "unknown" =>
        /\ Len(out) = frame.outBefore + 1
        /\ Last(out).kind = "error"
        /\ Last(out).id = frame.id
        /\ Untouched

\* C16: whenever the data handler is not running, no complete frame is
\* left in the buffer and every frame consumed has been answered with one
\* response frame.
C16_NoFrameLeftWaiting ==
    ~running => (indexOf(buffer) = 0 /\ Len(out) = consumed)

====
